---- MODULE Spec2Model ----
(***************************************************************************)
(* The provider upgrader of clusterctl as vendored by cluster-api-operator *)
(* (cmd/clusterctl/client/cluster/upgrader.go): Plan, ApplyPlan,           *)
(* ApplyCustomPlan, createCustomPlan and doUpgrade, over an inventory of   *)
(* provider records, per-provider release metadata and the provider        *)
(* components installed in the management cluster.                         *)
(*                                                                         *)
(* Versions are totally ordered; a version tag is modelled by its rank     *)
(* (1 = oldest release), the empty tag "" by NoVersion and a nil           *)
(* *version.Version by NilVersion.                                         *)
(***************************************************************************)
EXTENDS Integers, Sequences, FiniteSets, TLC

\* ------------------------------------------------------------------ bounds
MaxVersion == 3
MaxFleet == 3
MaxItems == 2
MaxCalls == 2
MaxContracts == 2
\* Replicas a deployment may have.
MaxReplicas == 1
\* Attempts of the write backoff (newWriteBackoff) and of the poll backoff
\* (Steps: 60 in scaleDownDeployment), scaled down.
MaxWriteSteps == 2
MaxPollSteps == 2
\* The versions a provider object of the operator may ask for.
MaxManifestVersion == 2
\* The ConfigMaps that are there when the operator starts.
MaxConfigMaps == 2

\* --------------------------------------------------------------- constants
\* The empty version string: UpgradeItem.NextVersion == "".
NoVersion == 0
\* A nil *version.Version, as getLatestNextVersion returns it when nothing matches.
NilVersion == -1
\* clusterv1.GroupVersion.Version of the imported api/v1beta1 package.
SupportedContract == "v1beta1"
\* No release series matches (GetReleaseSeriesForVersion returns nil).
NoSeries == "none"
\* A nil Deployment.Spec.Replicas.
NilReplicas == -1
\* An error message without a replica count.
NoCount == -1

Versions == 1..MaxVersion
Contracts == {"v1alpha4", "v1alpha5", "v1beta1"}

\* Provider identities the inventory may hold: two instances of the core
\* provider (different namespaces), one control plane and one infrastructure provider.
CoreA == [type |-> "CoreProvider", name |-> "cluster-api", namespace |-> "ns1"]
CoreB == [type |-> "CoreProvider", name |-> "cluster-api", namespace |-> "ns2"]
ControlPlaneA == [type |-> "ControlPlaneProvider", name |-> "kubeadm", namespace |-> "ns1"]
InfraA == [type |-> "InfrastructureProvider", name |-> "aws", namespace |-> "ns1"]
Identities == {CoreA, CoreB, ControlPlaneA, InfraA}
ProviderNames == {"cluster-api", "kubeadm", "aws"}

VARIABLES
    inventory,     \* the provider inventory: a list of provider records (identity + installed version)
    metadata,      \* release metadata per provider name: version -> contract, or NoSeries
    cluster,       \* per provider instance: the version of its installed components (NoVersion: deleted), whether its deployments are scaled to zero, and whether its CRDs and its namespace exist
    webhookNamespace, \* whether the shared webhook namespace exists
    pc,            \* position of the call in flight: idle, drain, fetch, delete, install, cleanup, done
    op,            \* the operation called: Plan, ApplyPlan, ApplyCustomPlan
    request,       \* the call's arguments: the contract (ApplyPlan) and the upgrade items (ApplyCustomPlan)
    unreachable,   \* provider names whose metadata source cannot be reached during the call
    plan,          \* the upgrade plan handed to doUpgrade, its providers sorted
    idx,           \* the loop index of doUpgrade's current loop
    fetched,       \* the components fetched for the current item (their version)
    ret,           \* what the call returned: the error and, for Plan, the plans
    log,           \* the mutations the call has issued, in order
    start,         \* the inventory, the cluster and the webhook namespace as they were when the call started
    calls,         \* calls started so far
    deployments,   \* scaleDownProvider: per deployment, whether the provider's selector matches it, its Spec.Replicas and its Status.Replicas
    sd,            \* scaleDownProvider: where it stands (pc, the deployments listed, the index in the list, the attempts of the running backoff, the error returned)
    seen,          \* scaleDownProvider: per deployment, whether its desired count was set to or found at zero, whether its poll has started, whether a poll read status zero, the attempts of either backoff, the status the last poll read, whether an attempt returned without an Update, the desired counts Updates replaced
    providerSpecs, \* downloadManifests: per provider object of the operator, its Spec.Version and whether Spec.FetchConfig.Selector is set
    configMaps,    \* downloadManifests: the ConfigMaps of the cluster, all namespaces
    dl,            \* downloadManifests: the last call (its provider, what it returned, whether it listed, the ConfigMaps the List found, the files it fetched, whether it created a ConfigMap)
    made           \* downloadManifests: the providers (object and version) for which a call has created the ConfigMap

upgradeVars == <<inventory, metadata, cluster, webhookNamespace, pc, op, request, unreachable,
                 plan, idx, fetched, ret, log, start, calls>>
drainVars == <<deployments, sd, seen>>
manifestVars == <<providerSpecs, configMaps, dl, made>>
vars == <<upgradeVars, drainVars, manifestVars>>

\* ------------------------------------------------------------------ helpers
Range(s) == {s[i] : i \in DOMAIN s}
Max(S) == CHOOSE x \in S : \A y \in S : y <= x
Min(S) == CHOOSE x \in S : \A y \in S : x <= y

\* All sequences over S of length at most n.
SeqsUpTo(S, n) == UNION {[1..k -> S] : k \in 0..n}
\* Sequences without repetition.
Distinct(s) == \A i, j \in DOMAIN s : i # j => s[i] # s[j]

\* ------------------------------------------------------------------- errors
NoOne == <<>>
NilErr == [kind |-> "nil", provider |-> NoOne]
Err(kind, who) == [kind |-> kind, provider |-> who]
\* errors.Wrapf of github.com/pkg/errors: wrapping a nil error gives nil.
Wrapf(err, kind, who) == IF err = NilErr THEN NilErr ELSE Err(kind, who)

\* --------------------------------------------------- provider records
\* InstanceName: the identity of a provider instance (namespace and manifest label).
InstanceName(p) == <<p.namespace, p.type, p.name>>

\* ProviderType.Order: Core, Bootstrap, ControlPlane, Infrastructure.
Order(type) ==
    CASE type = "CoreProvider" -> 0
      [] type = "BootstrapProvider" -> 1
      [] type = "ControlPlaneProvider" -> 2
      [] type = "InfrastructureProvider" -> 3

\* ProviderList.FilterCore.
FilterCore(providerList) == SelectSeq(providerList, LAMBDA p : p.type = "CoreProvider")

\* InventoryClient.CheckSingleProviderInstance: an error when some provider
\* (type and name) has more than one instance.
CheckSingleProviderInstance(providerList) ==
    LET dup == {i \in DOMAIN providerList : \E j \in DOMAIN providerList :
                    /\ j # i
                    /\ providerList[j].type = providerList[i].type
                    /\ providerList[j].name = providerList[i].name}
    IN  IF dup = {} THEN NilErr
        ELSE Err("MultipleInstancesNotSupported", InstanceName(providerList[Min(dup)]))

\* ------------------------------------------------- versions and metadata
\* version.ParseSemantic: fails on the empty string.
ParseSemantic(tag) ==
    IF tag \in Versions THEN [ok |-> TRUE, version |-> tag] ELSE [ok |-> FALSE, version |-> NilVersion]

\* versionTag: "" for nil, the tag of the version otherwise.
versionTag(v) == IF v = NilVersion THEN NoVersion ELSE v

\* Metadata.GetReleaseSeriesForVersion(...).Contract, NoSeries for nil.
GetReleaseSeriesForVersion(name, v) == metadata[name][v]

NoInfo == [name |-> "", currentVersion |-> NilVersion, currentContract |-> NoSeries, nextVersions |-> {}]

\* getUpgradeInfo: the provider's metadata, current version and contract and the
\* strictly newer versions that belong to a release series.
getUpgradeInfo(provider, down) ==
    IF provider.name \in down
    THEN [err |-> Err("MetadataUnavailable", InstanceName(provider)), info |-> NoInfo]
    ELSE IF GetReleaseSeriesForVersion(provider.name, provider.version) = NoSeries
    THEN [err |-> Err("NoMatchingReleaseSeries", InstanceName(provider)), info |-> NoInfo]
    ELSE [err |-> NilErr,
          info |-> [name |-> provider.name,
                    currentVersion |-> provider.version,
                    currentContract |-> GetReleaseSeriesForVersion(provider.name, provider.version),
                    nextVersions |-> {v \in Versions :
                                        /\ v > provider.version
                                        /\ GetReleaseSeriesForVersion(provider.name, v) # NoSeries}]]

\* upgradeInfo.getContractsForUpgrade: the current contract first, then the
\* contracts of the newer versions in ascending order of first introduction.
RECURSIVE ContractsFrom(_, _, _)
ContractsFrom(info, v, acc) ==
    IF v > MaxVersion THEN acc
    ELSE LET c == GetReleaseSeriesForVersion(info.name, v)
         IN  ContractsFrom(info, v + 1,
                 IF v \in info.nextVersions /\ c \notin Range(acc) THEN Append(acc, c) ELSE acc)

getContractsForUpgrade(info) == ContractsFrom(info, 1, <<info.currentContract>>)

\* upgradeInfo.getLatestNextVersion: the highest newer version with the contract, or nil.
getLatestNextVersion(info, contract) ==
    LET S == {v \in info.nextVersions : GetReleaseSeriesForVersion(info.name, v) = contract}
    IN  IF S = {} THEN NilVersion ELSE Max(S)

\* ------------------------------------------------------------- planning
\* A count check that accepts more than one core provider.
NoCoreOnly(coreProviders) == Len(coreProviders) = 0

\* The check of Plan and of createCustomPlan on the core providers of the
\* inventory: there must be exactly one.
NotExactlyOneCore(coreProviders) == Len(coreProviders) # 1

NoPlan == [Contract |-> "", Providers |-> <<>>]

\* UpgradePlan.isPartialUpgrade: some item has no target version.
isPartialUpgrade(upgradePlan) ==
    \E i \in DOMAIN upgradePlan.Providers : upgradePlan.Providers[i].NextVersion = NoVersion

\* A getUpgradePlan that plans the earliest newer version with the contract.
getUpgradePlanEarliest(providers, contract, down) ==
    LET failing == {i \in DOMAIN providers : getUpgradeInfo(providers[i], down).err # NilErr}
        next(i) == {v \in getUpgradeInfo(providers[i], down).info.nextVersions :
                       GetReleaseSeriesForVersion(providers[i].name, v) = contract}
    IN  IF failing # {}
        THEN [err |-> getUpgradeInfo(providers[Min(failing)], down).err, plan |-> NoPlan]
        ELSE [err |-> NilErr,
              plan |-> [Contract |-> contract,
                        Providers |-> [i \in DOMAIN providers |->
                            [Provider |-> providers[i],
                             NextVersion |-> IF next(i) = {} THEN NoVersion ELSE Min(next(i))]]]]

\* getUpgradePlan: one item per provider, its next version the latest one with
\* the contract ("" when there is none); the first provider whose upgrade info
\* cannot be had fails the whole plan.
getUpgradePlan(providers, contract, down) ==
    LET failing == {i \in DOMAIN providers : getUpgradeInfo(providers[i], down).err # NilErr}
    IN  IF failing # {}
        THEN [err |-> getUpgradeInfo(providers[Min(failing)], down).err, plan |-> NoPlan]
        ELSE [err |-> NilErr,
              plan |-> [Contract |-> contract,
                        Providers |-> [i \in DOMAIN providers |->
                            [Provider |-> providers[i],
                             NextVersion |-> versionTag(getLatestNextVersion(
                                 getUpgradeInfo(providers[i], down).info, contract))]]]]

\* A Plan that drops no plan.
KeepEveryPlan(upgradePlan, currentContract, contract) == FALSE
\* A Plan that drops every partial plan, the one for the current contract included.
DropEveryPartialPlan(upgradePlan, currentContract, contract) == isPartialUpgrade(upgradePlan)

\* The drop rule of Plan: a partial plan that changes the contract is dropped.
DropPlan(upgradePlan, currentContract, contract) ==
    isPartialUpgrade(upgradePlan) /\ currentContract # contract

\* The loop of Plan over the contracts considered for upgrade.
RECURSIVE PlanLoop(_, _, _, _, _, _)
PlanLoop(providerList, down, currentContract, contractsForUpgrade, i, acc) ==
    IF i > Len(contractsForUpgrade) THEN [err |-> NilErr, plans |-> acc]
    ELSE LET r == getUpgradePlan(providerList, contractsForUpgrade[i], down)
         IN  IF r.err # NilErr THEN [err |-> r.err, plans |-> <<>>]
             ELSE PlanLoop(providerList, down, currentContract, contractsForUpgrade, i + 1,
                      IF DropPlan(r.plan, currentContract, contractsForUpgrade[i])
                      THEN acc ELSE Append(acc, r.plan))

\* Plan from the contracts on: the check that there is a contract to consider
\* (its error wraps err, which is nil there), then the loop.
PlanForContracts(providerList, down, coreUpgradeInfo, coreProvider, contractsForUpgrade) ==
    IF Len(contractsForUpgrade) = 0
    THEN [err |-> Wrapf(NilErr, "NoUpgradeTargets", InstanceName(coreProvider)), plans |-> <<>>]
    ELSE PlanLoop(providerList, down, coreUpgradeInfo.currentContract, contractsForUpgrade, 1, <<>>)

\* providerUpgrader.Plan.
Plan(providerList, down) ==
    LET coreProviders == FilterCore(providerList)
    IN  IF NotExactlyOneCore(coreProviders)
        THEN [err |-> Err("NotExactlyOneCore", NoOne), plans |-> <<>>]
        ELSE LET coreProvider == coreProviders[1]
                 coreUpgradeInfo == getUpgradeInfo(coreProvider, down)
             IN  IF coreUpgradeInfo.err # NilErr
                 THEN [err |-> coreUpgradeInfo.err, plans |-> <<>>]
                 ELSE PlanForContracts(providerList, down, coreUpgradeInfo.info, coreProvider,
                                       getContractsForUpgrade(coreUpgradeInfo.info))

\* getProviderContractByVersion: the contract the provider supports at the target version.
getProviderContractByVersion(provider, targetVersion, down) ==
    LET targetSemVersion == ParseSemantic(targetVersion)
        upgradeInfo == getUpgradeInfo(provider, down)
    IN  IF ~targetSemVersion.ok
        THEN [err |-> Err("InvalidVersion", InstanceName(provider)), contract |-> ""]
        ELSE IF upgradeInfo.err # NilErr
        THEN [err |-> upgradeInfo.err, contract |-> ""]
        ELSE IF GetReleaseSeriesForVersion(provider.name, targetSemVersion.version) = NoSeries
        THEN [err |-> Err("NoMatchingReleaseSeries", InstanceName(provider)), contract |-> ""]
        ELSE [err |-> NilErr,
              contract |-> GetReleaseSeriesForVersion(provider.name, targetSemVersion.version)]

\* A createCustomPlan that takes every item for the first provider of the list.
MatchFirst(providerList, upgradeItem) == [found |-> TRUE, index |-> 1]

\* The provider of the list with the item's instance name, as the inner loop of
\* createCustomPlan finds it: the first match, or none.
MatchProvider(providerList, upgradeItem) ==
    LET hits == {i \in DOMAIN providerList :
                    InstanceName(providerList[i]) = InstanceName(upgradeItem.Provider)}
    IN  IF hits = {} THEN [found |-> FALSE, index |-> 0] ELSE [found |-> TRUE, index |-> Min(hits)]

\* A createCustomPlan that derives the target contract from the installed core version only.
TargetFromInstalledVersion(coreProvider, upgradeItems) == coreProvider.version

\* The version the target contract is derived from: the core provider's current
\* version or, when the core provider is among the items, the next version of
\* its first item.
TargetCoreProviderVersion(coreProvider, upgradeItems) ==
    LET hits == {i \in DOMAIN upgradeItems :
                    InstanceName(upgradeItems[i].Provider) = InstanceName(coreProvider)}
    IN  IF hits = {} THEN coreProvider.version ELSE upgradeItems[Min(hits)].NextVersion

\* A createCustomPlan that accepts every contract of an item.
NeverDiffers(contract, targetContract) == FALSE

\* The check of one upgrade item against the target contract.
ContractDiffers(contract, targetContract) == contract # targetContract

\* The first loop of createCustomPlan: every item must be a provider of the
\* management cluster whose target version supports the target contract.
RECURSIVE CheckItems(_, _, _, _, _)
CheckItems(providerList, upgradeItems, targetContract, down, i) ==
    IF i > Len(upgradeItems) THEN NilErr
    ELSE LET m == MatchProvider(providerList, upgradeItems[i])
         IN  IF ~m.found
             THEN Err("UnknownProvider", InstanceName(upgradeItems[i].Provider))
             ELSE LET c == getProviderContractByVersion(providerList[m.index],
                                                        upgradeItems[i].NextVersion, down)
                  IN  IF c.err # NilErr THEN c.err
                      ELSE IF ContractDiffers(c.contract, targetContract)
                      THEN Err("ContractMismatch", InstanceName(upgradeItems[i].Provider))
                      ELSE CheckItems(providerList, upgradeItems, targetContract, down, i + 1)

\* A createCustomPlan that checks no provider for lagging behind.
SkipEveryProvider(provider, upgradeItems) == TRUE

\* Whether the second loop of createCustomPlan skips the provider: it is
\* already included in the upgrade plan.
SkipProvider(provider, upgradeItems) ==
    \E i \in DOMAIN upgradeItems : InstanceName(upgradeItems[i].Provider) = InstanceName(provider)

\* The second loop of createCustomPlan: no other provider may lag behind the
\* target contract.
RECURSIVE CheckLagging(_, _, _, _, _)
CheckLagging(providerList, upgradeItems, targetContract, down, i) ==
    IF i > Len(providerList) THEN NilErr
    ELSE IF SkipProvider(providerList[i], upgradeItems)
    THEN CheckLagging(providerList, upgradeItems, targetContract, down, i + 1)
    ELSE LET c == getProviderContractByVersion(providerList[i], providerList[i].version, down)
         IN  IF c.err # NilErr THEN c.err
             ELSE IF c.contract # targetContract
             THEN Err("LaggingProvider", InstanceName(providerList[i]))
             ELSE CheckLagging(providerList, upgradeItems, targetContract, down, i + 1)

\* A createCustomPlan that takes every target contract.
EveryContractSupported(targetContract) == FALSE

\* The check of the target contract against the contract clusterctl supports.
UnsupportedContract(targetContract) == targetContract # SupportedContract

\* providerUpgrader.createCustomPlan.
createCustomPlan(providerList, upgradeItems, down) ==
    LET coreProviders == FilterCore(providerList)
    IN  IF NotExactlyOneCore(coreProviders)
        THEN [err |-> Err("NotExactlyOneCore", NoOne), plan |-> NoPlan]
        ELSE
        LET coreProvider == coreProviders[1]
            target == getProviderContractByVersion(coreProvider,
                          TargetCoreProviderVersion(coreProvider, upgradeItems), down)
        IN  IF target.err # NilErr THEN [err |-> target.err, plan |-> NoPlan]
            ELSE IF UnsupportedContract(target.contract)
            THEN [err |-> Err("UnsupportedContract", NoOne), plan |-> NoPlan]
            ELSE
            LET items == CheckItems(providerList, upgradeItems, target.contract, down, 1)
                lagging == CheckLagging(providerList, upgradeItems, target.contract, down, 1)
            IN  IF items # NilErr THEN [err |-> items, plan |-> NoPlan]
                ELSE IF lagging # NilErr THEN [err |-> lagging, plan |-> NoPlan]
                ELSE [err |-> NilErr,
                      plan |-> [Contract |-> target.contract, Providers |-> upgradeItems]]

\* ------------------------------------------------------------- doUpgrade
\* A doUpgrade without the single-instance check.
GuardNever(upgradePlan) == FALSE

\* The guard of doUpgrade: the single-instance check applies to a plan for the
\* contract clusterctl supports.
GuardApplies(upgradePlan) == upgradePlan.Contract = SupportedContract

\* A doUpgrade that takes the items in the order of the plan.
Unsorted(providers) == {providers}

\* sort.Slice by provider type order: the orders it may leave the items in
\* (the sort is not stable).
SortedByType(providers) ==
    {[i \in DOMAIN providers |-> providers[f[i]]] :
        f \in {g \in [DOMAIN providers -> DOMAIN providers] :
                /\ \A i, j \in DOMAIN providers : i # j => g[i] # g[j]
                /\ \A i, j \in DOMAIN providers :
                      i < j => Order(providers[g[i]].Provider.type) <= Order(providers[g[j]].Provider.type)}}

\* A doUpgrade that skips no item.
SkipNever(upgradeItem) == FALSE

\* Whether the loops of doUpgrade skip the item: it has no next version.
SkipItem(upgradeItem) == upgradeItem.NextVersion = NoVersion

\* The first item at or after index from that a loop of doUpgrade does not skip
\* (Len + 1 when the loop is over).
NextIndex(providers, from) ==
    LET S == {i \in DOMAIN providers : i >= from /\ ~SkipItem(providers[i])}
    IN  IF S = {} THEN Len(providers) + 1 ELSE Min(S)

\* Where doUpgrade goes when the replace loop is over: the removal of the
\* webhook namespace for the supported contract, or the return.
AfterReplace(upgradePlan) == IF upgradePlan.Contract = SupportedContract THEN "cleanup" ELSE "done"

\* Where doUpgrade starts: the first item to scale down, or past both loops.
FirstStep(upgradePlan) ==
    LET i == NextIndex(upgradePlan.Providers, 1)
    IN  IF i <= Len(upgradePlan.Providers) THEN [pc |-> "drain", idx |-> i]
        ELSE [pc |-> AfterReplace(upgradePlan), idx |-> i]

\* A doUpgrade that replaces each item right after scaling it down.
AfterDrainInterleaved(upgradePlan, i) == [pc |-> "fetch", idx |-> i]

\* A doUpgrade that deletes the first item before it fetches its components.
AfterDrainDeleteFirst(upgradePlan, i) ==
    LET j == NextIndex(upgradePlan.Providers, i + 1)
    IN  IF j <= Len(upgradePlan.Providers) THEN [pc |-> "drain", idx |-> j]
        ELSE [pc |-> "delete", idx |-> NextIndex(upgradePlan.Providers, 1)]

\* Where doUpgrade goes after scaling down item i: the next item to scale down
\* or, when all are scaled down, the first item to replace.
AfterDrain(upgradePlan, i) ==
    LET j == NextIndex(upgradePlan.Providers, i + 1)
    IN  IF j <= Len(upgradePlan.Providers) THEN [pc |-> "drain", idx |-> j]
        ELSE [pc |-> "fetch", idx |-> NextIndex(upgradePlan.Providers, 1)]

\* A doUpgrade that removes the webhook namespace after the first install.
AfterInstallCleanup(upgradePlan, i) == [pc |-> "cleanup", idx |-> i]

\* Where doUpgrade goes after installing item i: the next item to replace, or
\* past the loop.
AfterInstall(upgradePlan, i) ==
    LET j == NextIndex(upgradePlan.Providers, i + 1)
    IN  IF j <= Len(upgradePlan.Providers) THEN [pc |-> "fetch", idx |-> j]
        ELSE [pc |-> AfterReplace(upgradePlan), idx |-> j]

\* A Delete that spares nothing.
DeleteEverything(upgradeItem) ==
    [Provider |-> upgradeItem.Provider,
     IncludeNamespace |-> TRUE, IncludeCRDs |-> TRUE, SkipInventory |-> FALSE]

\* The DeleteOptions doUpgrade passes to providerComponents.Delete.
DeleteOptions(upgradeItem) ==
    [Provider |-> upgradeItem.Provider,
     IncludeNamespace |-> FALSE, IncludeCRDs |-> FALSE, SkipInventory |-> TRUE]

\* ComponentsClient.Delete on the cluster: the provider's components go, its
\* CRDs and its namespace only when the options include them.
DeleteFromCluster(c, options) ==
    [c EXCEPT ![InstanceName(options.Provider)] =
        [components |-> NoVersion,
         scaled |-> @.scaled,
         crds |-> @.crds /\ ~options.IncludeCRDs,
         namespace |-> @.namespace /\ ~options.IncludeNamespace]]

\* ComponentsClient.Delete on the inventory: the provider's record goes unless
\* the options skip the inventory.
DeleteFromInventory(providerList, options) ==
    IF options.SkipInventory THEN providerList
    ELSE SelectSeq(providerList, LAMBDA p : InstanceName(p) # InstanceName(options.Provider))

\* The inventory after installComponentsAndUpdateInventory recorded the
\* provider instance at the installed version.
UpdateInventory(providerList, who, version) ==
    [i \in DOMAIN providerList |->
        IF InstanceName(providerList[i]) = who
        THEN [providerList[i] EXCEPT !.version = version]
        ELSE providerList[i]]

\* ------------------------------------------------------------ the inputs
Step(k, a, b) == [v \in Versions |-> IF v < k THEN a ELSE b]

\* Release metadata the repositories may publish.
\* The spec's scenario: the core provider offers a last release for v1alpha5,
\* the control plane provider has none.
CatalogScenario ==
    [n \in ProviderNames |->
        IF n = "kubeadm" THEN Step(MaxVersion, "v1alpha4", NoSeries)
        ELSE Step(MaxVersion, "v1alpha4", "v1alpha5")]
\* Every provider has a last release for the supported contract; the core
\* provider went through v1alpha5, the infrastructure provider has two
\* releases for the supported contract.
CatalogFull ==
    [n \in ProviderNames |->
        CASE n = "cluster-api" ->
                 [v \in Versions |-> IF v = 1 THEN "v1alpha4"
                                     ELSE IF v < MaxVersion THEN "v1alpha5" ELSE SupportedContract]
          [] n = "kubeadm" -> Step(MaxVersion, "v1alpha4", SupportedContract)
          [] n = "aws" -> Step(2, "v1alpha4", SupportedContract)]
\* The control plane provider has no release for the supported contract, and the
\* oldest infrastructure release belongs to no release series.
CatalogPartial ==
    [n \in ProviderNames |->
        CASE n = "cluster-api" -> Step(MaxVersion, "v1alpha4", SupportedContract)
          [] n = "kubeadm" -> Step(MaxVersion, "v1alpha4", NoSeries)
          [] n = "aws" -> Step(2, NoSeries, SupportedContract)]
Catalogs == {CatalogScenario, CatalogFull, CatalogPartial}

\* Inventories: lists of distinct provider instances, in any order; the second
\* core instance only beside the first.
Fleets == {f \in SeqsUpTo(Identities, MaxFleet) :
              Distinct(f) /\ (CoreB \in Range(f) => CoreA \in Range(f))}

\* The upgrade items a user may pass to ApplyCustomPlan.
UpgradeItems ==
    {[Provider |-> [type |-> id.type, name |-> id.name, namespace |-> id.namespace,
                    version |-> NoVersion],
      NextVersion |-> v] : id \in Identities, v \in {NoVersion} \cup Versions}
Requests == SeqsUpTo(UpgradeItems, MaxItems)

\* The metadata sources that may be unreachable during one call: none, or all.
Outages(providerList) == {{}, ProviderNames}

NoRet == [err |-> NilErr, plans |-> <<>>]
NoRequest == [contract |-> "", items |-> <<>>, contracts |-> <<>>]

\* scaleDownProvider not called.
NoUnit == ""
\* What an error of scaleDownDeployment tells: the deployment it names and the
\* replica count it carries.
NoCause == [unit |-> NoUnit, replicas |-> NoCount]
NoScaleDown == [pc |-> "idle", list |-> <<>>, i |-> 0, attempts |-> 0, err |-> "nil", cause |-> NoCause]

\* The state of the upgrader and of the management cluster before the first call.
InitUpgrade ==
    /\ \E f \in Fleets :
          /\ inventory = [i \in DOMAIN f |->
                 [type |-> f[i].type, name |-> f[i].name, namespace |-> f[i].namespace,
                  version |-> 1]]
          /\ cluster = [id \in {InstanceName(f[i]) : i \in DOMAIN f} |->
                 [components |-> 1, scaled |-> FALSE, crds |-> TRUE, namespace |-> TRUE]]
    /\ metadata \in Catalogs
    /\ webhookNamespace = TRUE
    /\ pc = "idle"
    /\ op = "none"
    /\ request = NoRequest
    /\ unreachable = {}
    /\ plan = NoPlan
    /\ idx = 0
    /\ fetched = NoVersion
    /\ ret = NoRet
    /\ log = <<>>
    /\ start = [inventory |-> inventory, cluster |-> cluster, webhookNamespace |-> webhookNamespace]
    /\ calls = 0

\* No call of downloadManifests yet.
NoDownload == [called |-> FALSE, obj |-> <<>>, version |-> NoVersion, selector |-> FALSE,
               err |-> "nil", listed |-> FALSE, listErr |-> FALSE, found |-> 0, fetched |-> 0,
               created |-> FALSE, later |-> FALSE]
\* No provider object of the operator, no ConfigMap.
InitNoManifests ==
    /\ providerSpecs = <<>>
    /\ configMaps = {}
    /\ dl = NoDownload
    /\ made = {}

Init ==
    /\ InitUpgrade
    /\ deployments = <<>>
    /\ sd = NoScaleDown
    /\ seen = <<>>
    /\ InitNoManifests

\* ----------------------------------------------------------- the calls
Event(what, who, ok) == [what |-> what, who |-> who, ok |-> ok]

\* A call returns err.
Return(err) ==
    /\ pc' = "done"
    /\ ret' = [err |-> err, plans |-> <<>>]

\* doUpgrade up to its first mutation: the guard, then the sort.
StartDoUpgrade(upgradePlan) ==
    IF GuardApplies(upgradePlan) /\ CheckSingleProviderInstance(inventory) # NilErr
    THEN /\ Return(CheckSingleProviderInstance(inventory))
         /\ plan' = upgradePlan
         /\ idx' = 0
    ELSE \E sorted \in SortedByType(upgradePlan.Providers) :
            LET p == [upgradePlan EXCEPT !.Providers = sorted]
            IN  /\ plan' = p
                /\ pc' = FirstStep(p).pc
                /\ idx' = FirstStep(p).idx
                /\ ret' = NoRet

Begin(name, arg, down) ==
    /\ pc = "idle"
    /\ calls < MaxCalls
    /\ calls' = calls + 1
    /\ op' = name
    /\ request' = arg
    /\ unreachable' = down
    /\ start' = [inventory |-> inventory, cluster |-> cluster, webhookNamespace |-> webhookNamespace]
    /\ log' = <<>>
    /\ fetched' = NoVersion
    /\ UNCHANGED <<inventory, metadata, cluster, webhookNamespace>>
    /\ UNCHANGED <<drainVars, manifestVars>>

\* Plan().
CallPlan ==
    \E down \in Outages(inventory) :
        /\ Begin("Plan", NoRequest, down)
        /\ pc' = "done"
        /\ ret' = Plan(inventory, down)
        /\ UNCHANGED <<plan, idx>>

\* ApplyPlan(contract), up to the first mutation of doUpgrade.
CallApplyPlan ==
    \E contract \in Contracts, down \in Outages(inventory) :
        /\ Begin("ApplyPlan", [NoRequest EXCEPT !.contract = contract], down)
        /\ IF contract # SupportedContract
           THEN Return(Err("UnsupportedContract", NoOne)) /\ UNCHANGED <<plan, idx>>
           ELSE LET r == getUpgradePlan(inventory, contract, down)
                IN  IF r.err # NilErr
                    THEN Return(r.err) /\ UNCHANGED <<plan, idx>>
                    ELSE StartDoUpgrade(r.plan)

\* ApplyCustomPlan(upgradeItems...), up to the first mutation of doUpgrade.
CallApplyCustomPlan ==
    \E upgradeItems \in Requests, down \in Outages(inventory) :
        /\ Begin("ApplyCustomPlan", [NoRequest EXCEPT !.items = upgradeItems], down)
        /\ LET r == createCustomPlan(inventory, upgradeItems, down)
           IN  IF r.err # NilErr
               THEN Return(r.err) /\ UNCHANGED <<plan, idx>>
               ELSE StartDoUpgrade(r.plan)

\* ------------------------------------------------- the steps of doUpgrade
Item == plan.Providers[idx]
Who == InstanceName(Item.Provider)

\* A doUpgrade whose failing step reports a version outside every release series.
AbortNoReleaseSeries(what, kind) ==
    /\ log' = Append(log, Event(what, Who, FALSE))
    /\ Return(Err("NoMatchingReleaseSeries", Who))
    /\ UNCHANGED <<inventory, cluster, webhookNamespace, plan, idx, fetched>>

\* A doUpgrade that tries a failed step again instead of returning.
AbortNever(what, kind) ==
    /\ log' = Append(log, Event(what, Who, FALSE))
    /\ UNCHANGED <<inventory, cluster, webhookNamespace, plan, idx, fetched, pc, ret>>

\* A step of doUpgrade fails: doUpgrade returns the error where it stands.
Abort(what, kind) ==
    /\ log' = Append(log, Event(what, Who, FALSE))
    /\ Return(Err(kind, Who))
    /\ UNCHANGED <<inventory, cluster, webhookNamespace, plan, idx, fetched>>

\* scaleDownProvider(upgradeItem.Provider) in the first loop.
ScaleDown ==
    /\ pc = "drain"
    /\ \/ /\ cluster' = [cluster EXCEPT ![Who].scaled = TRUE]
          /\ log' = Append(log, Event("drain", Who, TRUE))
          /\ pc' = AfterDrain(plan, idx).pc
          /\ idx' = AfterDrain(plan, idx).idx
          /\ UNCHANGED <<inventory, webhookNamespace, plan, fetched, ret>>
       \/ Abort("drain", "DrainError")
    /\ UNCHANGED <<metadata, op, request, unreachable, start, calls>>
    /\ UNCHANGED <<drainVars, manifestVars>>

\* getUpgradeComponents(upgradeItem) in the second loop.
Fetch ==
    /\ pc = "fetch"
    /\ \/ /\ fetched' = Item.NextVersion
          /\ log' = Append(log, Event("fetch", Who, TRUE))
          /\ pc' = "delete"
          /\ UNCHANGED <<inventory, cluster, webhookNamespace, plan, idx, ret>>
       \/ Abort("fetch", "ComponentFetchError")
    /\ UNCHANGED <<metadata, op, request, unreachable, start, calls>>
    /\ UNCHANGED <<drainVars, manifestVars>>

\* providerComponents.Delete, preserving CRDs, namespace and inventory.
Delete ==
    /\ pc = "delete"
    /\ \/ /\ cluster' = DeleteFromCluster(cluster, DeleteOptions(Item))
          /\ inventory' = DeleteFromInventory(inventory, DeleteOptions(Item))
          /\ log' = Append(log, Event("delete", Who, TRUE))
          /\ pc' = "install"
          /\ UNCHANGED <<webhookNamespace, plan, idx, fetched, ret>>
       \/ Abort("delete", "DeleteError")
    /\ UNCHANGED <<metadata, op, request, unreachable, start, calls>>
    /\ UNCHANGED <<drainVars, manifestVars>>

\* installComponentsAndUpdateInventory(components, ...).
Install ==
    /\ pc = "install"
    /\ \/ /\ cluster' = [cluster EXCEPT ![Who] = [components |-> fetched, scaled |-> FALSE,
                                               crds |-> TRUE, namespace |-> TRUE]]
          /\ inventory' = UpdateInventory(inventory, Who, fetched)
          /\ log' = Append(log, Event("install", Who, TRUE))
          /\ pc' = AfterInstall(plan, idx).pc
          /\ idx' = AfterInstall(plan, idx).idx
          /\ IF AfterInstall(plan, idx).pc = "done"
             THEN ret' = [err |-> NilErr, plans |-> <<>>]
             ELSE UNCHANGED ret
          /\ UNCHANGED <<webhookNamespace, plan, fetched>>
       \/ Abort("install", "InstallError")
    /\ UNCHANGED <<metadata, op, request, unreachable, start, calls>>
    /\ UNCHANGED <<drainVars, manifestVars>>

\* providerComponents.DeleteWebhookNamespace(), then the return of doUpgrade.
Cleanup ==
    /\ pc = "cleanup"
    /\ \/ /\ webhookNamespace' = FALSE
          /\ log' = Append(log, Event("removeWebhookNamespace", NoOne, TRUE))
          /\ Return(NilErr)
       \/ /\ log' = Append(log, Event("removeWebhookNamespace", NoOne, FALSE))
          /\ Return(Err("WebhookNamespaceError", NoOne))
          /\ UNCHANGED webhookNamespace
    /\ UNCHANGED <<inventory, metadata, cluster, op, request, unreachable, plan, idx, fetched,
                   start, calls>>
    /\ UNCHANGED <<drainVars, manifestVars>>

\* The caller goes on to its next call.
Idle ==
    /\ pc = "done"
    /\ calls < MaxCalls
    /\ pc' = "idle"
    /\ op' = "none"
    /\ request' = NoRequest
    /\ unreachable' = {}
    /\ plan' = NoPlan
    /\ idx' = 0
    /\ fetched' = NoVersion
    /\ ret' = NoRet
    /\ log' = <<>>
    /\ start' = [inventory |-> inventory, cluster |-> cluster, webhookNamespace |-> webhookNamespace]
    /\ UNCHANGED <<inventory, metadata, cluster, webhookNamespace, calls>>
    /\ UNCHANGED <<drainVars, manifestVars>>

Next ==
    \/ CallPlan
    \/ CallApplyPlan
    \/ CallApplyCustomPlan
    \/ ScaleDown
    \/ Fetch
    \/ Delete
    \/ Install
    \/ Cleanup
    \/ Idle

Spec == Init /\ [][Next]_vars

\* ------------------------------ Plan over the contracts it is handed
\* The lists of contracts getContractsForUpgrade may hand to Plan, the empty
\* list among them.
ContractLists == {l \in SeqsUpTo(Contracts, MaxContracts) : Distinct(l)}

\* Plan(), from the result of getContractsForUpgrade on: the inventory has one
\* core provider and its upgrade info was read.
CallPlanForContracts ==
    \E contractsForUpgrade \in ContractLists :
        /\ Len(FilterCore(inventory)) = 1
        /\ getUpgradeInfo(FilterCore(inventory)[1], {}).err = NilErr
        /\ Begin("PlanForContracts", [NoRequest EXCEPT !.contracts = contractsForUpgrade], {})
        /\ pc' = "done"
        /\ ret' = PlanForContracts(inventory, {},
                                   getUpgradeInfo(FilterCore(inventory)[1], {}).info,
                                   FilterCore(inventory)[1], contractsForUpgrade)
        /\ UNCHANGED <<plan, idx>>

NextContracts ==
    \/ CallPlanForContracts
    \/ Idle

SpecContracts == Init /\ [][NextContracts]_vars


\* ------------------------------------------------- scaleDownProvider
\* The deployments of the provider's namespace.
Units == {"d1", "d2"}
ReplicaCounts == 0..MaxReplicas
\* The replicas a deployment is to run for its Spec.Replicas: one for nil.
Desired(replicas) == IF replicas = NilReplicas THEN 1 ELSE replicas

\* The lists the List of scaleDownProvider may return: the deployments the
\* provider's labels match, in any order.
Listings(d) ==
    {l \in SeqsUpTo(Units, Cardinality(Units)) :
        Distinct(l) /\ Range(l) = {u \in Units : d[u].owner}}

\* scaleDownProvider after scaleDownDeployment returned nil: the next
\* deployment of the list, or the return.
NextDeployment(s) ==
    IF s.i < Len(s.list)
    THEN [s EXCEPT !.pc = "scale", !.i = @ + 1, !.attempts = 0]
    ELSE [s EXCEPT !.pc = "done", !.err = "nil"]

\* A scaleDownDeployment that returns once the desired count is zero.
SkipPoll(s) == NextDeployment(s)

\* scaleDownDeployment after its first backoff returned nil: the second
\* backoff, which polls the status.
AfterZero(s) == [s EXCEPT !.pc = "poll", !.attempts = 0]

\* retryWithExponentialBackoff after a failed attempt: another attempt while
\* the backoff has steps left, the error otherwise.
Retry(s, steps, kind, cause) ==
    IF s.attempts + 1 < steps
    THEN [s EXCEPT !.attempts = @ + 1]
    ELSE [s EXCEPT !.pc = "done", !.err = kind, !.cause = cause]

\* errors.Wrapf(err, "failed to get Deployment/%s", deploy.GetName()) and
\* "failed to update Deployment/%s": the message names the deployment.
DeploymentError(unit) == [unit |-> unit, replicas |-> NoCount]
\* errors.Errorf("Deployment still has %d replicas", deployment.Status.Replicas).
StillHasReplicas(unit, status) == [unit |-> NoUnit, replicas |-> status]

\* A check that never finds the deployment scaled down.
NeverScaledDown(replicas) == FALSE
\* "Deployment already scaled down": Spec.Replicas is set and zero.
AlreadyScaledDown(replicas) == replicas # NilReplicas /\ replicas = 0

\* The deployment scaleDownDeployment works on.
Unit == sd.list[sd.i]

\* scaleDownProvider: the List of the provider's deployments.
ListDeployments ==
    /\ sd.pc = "idle"
    /\ \/ \E l \in Listings(deployments) :
             sd' = IF l = <<>> THEN [sd EXCEPT !.pc = "done", !.err = "nil"]
                   ELSE [sd EXCEPT !.pc = "scale", !.list = l, !.i = 1, !.attempts = 0]
       \/ sd' = [sd EXCEPT !.pc = "done", !.err = "ListError"]
    /\ UNCHANGED <<deployments, seen>>
    /\ UNCHANGED <<upgradeVars, manifestVars>>

\* One attempt of the first backoff of scaleDownDeployment: Get the
\* deployment, return when its Spec.Replicas is zero, else set it to zero and
\* Update.
ScaleAttempt ==
    /\ sd.pc = "scale"
    /\ \/ /\ sd' = Retry(sd, MaxWriteSteps, "ScaleDownError", DeploymentError(Unit))
          /\ seen' = [seen EXCEPT ![Unit].attempts = @ + 1]
          /\ UNCHANGED deployments
       \/ /\ AlreadyScaledDown(deployments[Unit].replicas)
          /\ sd' = AfterZero(sd)
          /\ seen' = [seen EXCEPT ![Unit].zero = TRUE, ![Unit].attempts = @ + 1,
                                  ![Unit].skipped = TRUE]
          /\ UNCHANGED deployments
       \/ /\ ~AlreadyScaledDown(deployments[Unit].replicas)
          /\ deployments' = [deployments EXCEPT ![Unit].replicas = 0]
          /\ sd' = AfterZero(sd)
          /\ seen' = [seen EXCEPT ![Unit].zero = TRUE, ![Unit].attempts = @ + 1,
                                  ![Unit].updated = @ \cup {deployments[Unit].replicas}]
    /\ UNCHANGED <<upgradeVars, manifestVars>>

\* One attempt of the second backoff of scaleDownDeployment: Get the
\* deployment and return when its Status.Replicas is zero.
PollAttempt ==
    /\ sd.pc = "poll"
    /\ \/ /\ sd' = Retry(sd, MaxPollSteps, "PollGetError", DeploymentError(Unit))
          /\ seen' = [seen EXCEPT ![Unit].polled = TRUE, ![Unit].polls = @ + 1]
       \/ /\ deployments[Unit].status = 0
          /\ sd' = NextDeployment(sd)
          /\ seen' = [seen EXCEPT ![Unit].polled = TRUE, ![Unit].observed = seen[Unit].zero,
                                  ![Unit].polls = @ + 1, ![Unit].last = 0]
       \/ /\ deployments[Unit].status # 0
          /\ sd' = Retry(sd, MaxPollSteps, "PollTimeout",
                         StillHasReplicas(Unit, deployments[Unit].status))
          /\ seen' = [seen EXCEPT ![Unit].polled = TRUE, ![Unit].polls = @ + 1,
                                  ![Unit].last = deployments[Unit].status]
    /\ UNCHANGED deployments
    /\ UNCHANGED <<upgradeVars, manifestVars>>

\* The deployment controller brings the running replicas of a deployment one
\* closer to the desired count.
Controller ==
    /\ \E u \in Units :
          /\ deployments[u].status # Desired(deployments[u].replicas)
          /\ deployments' = [deployments EXCEPT ![u].status =
                IF @ < Desired(deployments[u].replicas) THEN @ + 1 ELSE @ - 1]
    /\ UNCHANGED <<sd, seen>>
    /\ UNCHANGED <<upgradeVars, manifestVars>>

\* Another client of the API server sets the desired count of a deployment
\* while scaleDownProvider runs.
OtherWriter ==
    /\ sd.pc \in {"scale", "poll"}
    /\ \E u \in Units, r \in {NilReplicas} \cup ReplicaCounts :
          /\ r # deployments[u].replicas
          /\ deployments' = [deployments EXCEPT ![u].replicas = r]
    /\ UNCHANGED <<sd, seen>>
    /\ UNCHANGED <<upgradeVars, manifestVars>>

\* scaleDownProvider is called for the core provider of a one-provider
\* inventory, its deployments in any state.
InitDrain ==
    /\ InitUpgrade
    /\ Len(inventory) = 1
    /\ inventory[1].type = "CoreProvider"
    /\ metadata = CatalogFull
    /\ deployments \in [Units -> [owner : BOOLEAN,
                                  replicas : {NilReplicas} \cup ReplicaCounts,
                                  status : ReplicaCounts]]
    /\ sd = NoScaleDown
    /\ InitNoManifests
    /\ seen = [u \in Units |-> [zero |-> FALSE, polled |-> FALSE, observed |-> FALSE,
                                attempts |-> 0, polls |-> 0, last |-> NoCount,
                                skipped |-> FALSE, updated |-> {}]]

NextDrain ==
    \/ ListDeployments
    \/ ScaleAttempt
    \/ PollAttempt
    \/ Controller
    \/ OtherWriter

SpecDrain == InitDrain /\ [][NextDrain]_vars

\* ------------------------------------------------- downloadManifests
\* The provider objects the operator reconciles: the same core provider in
\* two namespaces and an infrastructure provider.
ManagedObjects == {CoreA, CoreB, InfraA}
ManifestVersions == 1..MaxManifestVersion
NoLabel == ""

\* prepareConfigMapLabels: the labels that identify the ConfigMap with the
\* downloaded manifests of a provider.
prepareConfigMapLabels(obj, spec) ==
    [version |-> spec.version, type |-> obj.type, name |-> obj.name,
     managed |-> "true", test |-> NoLabel]
\* The labels of the test's ConfigMap, which a FetchConfig selector picks.
DummyLabels ==
    [version |-> NoVersion, type |-> NoLabel, name |-> NoLabel,
     managed |-> NoLabel, test |-> "dummy-config"]
\* labels.SelectorFromSet: every label of the selector is on the object.
Matches(labels, selector) ==
    /\ selector.version # NoVersion => labels.version = selector.version
    /\ \A k \in {"type", "name", "managed", "test"} :
          selector[k] # NoLabel => labels[k] = selector[k]

\* createManifestsConfigMap: the ConfigMap it hands to Create.
createManifestsConfigMap(obj, spec) ==
    [namespace |-> obj.namespace,
     name |-> <<obj.type, obj.name, spec.version>>,
     labels |-> prepareConfigMapLabels(obj, spec),
     data |-> {"metadata", "components"},
     owner |-> obj.name]
\* dummyConfigMap of the test: the ConfigMap a FetchConfig selector picks.
dummyConfigMap(ns) ==
    [namespace |-> ns, name |-> <<"v0.4.2", "", NoVersion>>, labels |-> DummyLabels,
     data |-> {"metadata", "components"}, owner |-> ""]
\* Create of the API server: refused when the namespace holds a ConfigMap of
\* the name.
AlreadyExists(cms, cm) ==
    \E c \in cms : c.namespace = cm.namespace /\ c.name = cm.name

\* "a custom config map is used instead of a url": FetchConfig and its
\* Selector are set.
CustomConfigMapUsed(spec) == spec.selector

\* The List of checkConfigMapExists: the ConfigMaps of any namespace the
\* selector matches.
ListConfigMaps(cms, obj, labelSelector) ==
    {cm \in cms : Matches(cm.labels, labelSelector)}

\* A check that never finds the manifests downloaded.
checkNothingExists(items) == [exists |-> FALSE, err |-> "nil"]
\* checkConfigMapExists, from the items of its List: an error for more than
\* one, else whether there is one.
checkConfigMapExists(items) ==
    IF Cardinality(items) > 1
    THEN [exists |-> FALSE, err |-> "CheckConfigMapError"]
    ELSE [exists |-> Cardinality(items) = 1, err |-> "nil"]

\* The ConfigMaps that may be there when the operator starts: the manifests
\* earlier runs stored for the core provider of either namespace, and the
\* ConfigMap of a FetchConfig selector.
Leftovers ==
    {createManifestsConfigMap(CoreA, [version |-> 1, selector |-> FALSE]),
     createManifestsConfigMap(CoreB, [version |-> 1, selector |-> FALSE]),
     dummyConfigMap("ns1")}

\* phaseReconciler.downloadManifests for one provider object.
DownloadManifests ==
    \E obj \in ManagedObjects :
        LET spec == providerSpecs[obj]
            labelSelector == prepareConfigMapLabels(obj, spec)
            items == ListConfigMaps(configMaps, obj, labelSelector)
            check == checkConfigMapExists(items)
            configMap == createManifestsConfigMap(obj, spec)
            call == [NoDownload EXCEPT !.called = TRUE, !.obj = obj, !.version = spec.version,
                                       !.selector = spec.selector,
                                       !.later = (<<obj, spec.version>> \in made)]
            listed == [call EXCEPT !.listed = TRUE, !.found = Cardinality(items)]
        IN  \/ /\ CustomConfigMapUsed(spec)
               /\ dl' = call
               /\ UNCHANGED <<configMaps, made>>
            \/ /\ ~CustomConfigMapUsed(spec)
               /\ dl' = [call EXCEPT !.listed = TRUE, !.listErr = TRUE, !.err = "CheckConfigMapError"]
               /\ UNCHANGED <<configMaps, made>>
            \/ /\ ~CustomConfigMapUsed(spec)
               /\ check.err # "nil" \/ check.exists
               /\ dl' = [listed EXCEPT !.err = check.err]
               /\ UNCHANGED <<configMaps, made>>
            \/ /\ ~CustomConfigMapUsed(spec)
               /\ check.err = "nil" /\ ~check.exists
               /\ \/ /\ \E n \in 0..1 :
                           dl' = [listed EXCEPT !.fetched = n, !.err = "ComponentsFetchError"]
                     /\ UNCHANGED <<configMaps, made>>
                  \/ /\ dl' = [listed EXCEPT !.fetched = 2, !.err = "ComponentsFetchError"]
                     /\ UNCHANGED <<configMaps, made>>
                  \/ /\ ~AlreadyExists(configMaps, configMap)
                     /\ configMaps' = configMaps \cup {configMap}
                     /\ made' = made \cup {<<obj, spec.version>>}
                     /\ dl' = [listed EXCEPT !.fetched = 2, !.created = TRUE]
    /\ UNCHANGED providerSpecs
    /\ UNCHANGED <<upgradeVars, drainVars>>

\* The user sets another Spec.Version on a provider object.
SetVersion ==
    /\ \E obj \in ManagedObjects, v \in ManifestVersions :
          /\ v # providerSpecs[obj].version
          /\ providerSpecs' = [providerSpecs EXCEPT ![obj].version = v]
    /\ UNCHANGED <<configMaps, dl, made>>
    /\ UNCHANGED <<upgradeVars, drainVars>>

\* The operator starts with its provider objects at any version, with or
\* without a FetchConfig selector, and with some leftover ConfigMaps.
InitManifests ==
    /\ InitUpgrade
    /\ Len(inventory) = 1
    /\ inventory[1].type = "CoreProvider"
    /\ metadata = CatalogFull
    /\ deployments = <<>>
    /\ sd = NoScaleDown
    /\ seen = <<>>
    /\ providerSpecs \in [ManagedObjects -> [version : ManifestVersions, selector : BOOLEAN]]
    /\ configMaps \in {c \in SUBSET Leftovers : Cardinality(c) <= MaxConfigMaps}
    /\ dl = NoDownload
    /\ made = {}

NextManifests ==
    \/ DownloadManifests
    \/ SetVersion

SpecManifests == InitManifests /\ [][NextManifests]_vars

\* ------------------------------------------------------------ properties
\* The call in flight, or the last one, is a rollout (ApplyPlan or ApplyCustomPlan).
IsApply == op \in {"ApplyPlan", "ApplyCustomPlan"}
\* The call has returned.
Returned == pc = "done"
\* doUpgrade was entered: planning handed it a plan.
Executing == IsApply /\ plan # NoPlan
\* The operations the call has issued so far, by kind.
Issued(kinds) == {k \in DOMAIN log : log[k].what \in kinds}
\* The contract of a provider record's installed version, NoSeries when no release series holds it.
InstalledContract(p) == metadata[p.name][p.version]
\* The items of the plan that name a next version.
ToUpgrade == {i \in DOMAIN plan.Providers : plan.Providers[i].NextVersion # NoVersion}

\* C1 (as claimed): after a rollout that returned success for a plan with
\* contract C, every provider record of the inventory is installed at a version
\* whose contract is C, the providers whose item has no next version included.
C1_ContractConsistency ==
    (Returned /\ Executing /\ ret.err = NilErr) =>
        \A i \in DOMAIN inventory : InstalledContract(inventory[i]) = plan.Contract

\* C2: in every state of a rollout, a delete or an install has been issued only
\* after every item with a next version was scaled down successfully; while the
\* drain phase runs, and when it aborts, nothing is deleted or replaced.
C2_DrainsBeforeReplace ==
    Executing =>
        /\ \A k \in Issued({"delete", "install"}) : \A i \in ToUpgrade :
              \E j \in 1..(k - 1) :
                  log[j] = Event("drain", InstanceName(plan.Providers[i].Provider), TRUE)
        /\ (pc = "drain" \/ (Returned /\ ret.err.kind = "DrainError")) =>
              /\ Issued({"fetch", "delete", "install", "removeWebhookNamespace"}) = {}
              /\ inventory = start.inventory
              /\ \A id \in DOMAIN cluster : cluster[id].components = start.cluster[id].components

\* C2 witness: a rollout of at least two items has installed the first of them.
C2_Witness ==
    /\ Executing
    /\ Cardinality(ToUpgrade) >= 2
    /\ Issued({"install"}) # {}

\* The inventory the call started from holds exactly one core provider.
OneCore == Len(FilterCore(start.inventory)) = 1
TheCore == FilterCore(start.inventory)[1]
\* The provider's metadata resolves: its source is reachable and a release
\* series holds the installed version.
Resolves(p) == unreachable = {} /\ InstalledContract(p) # NoSeries
\* The provider has a release newer than the installed one for the contract.
HasReleaseFor(p, c) == \E v \in Versions : v > p.version /\ metadata[p.name][v] = c
\* The first release of the core provider, newer than the installed one, for the contract.
FirstCoreRelease(c) == Min({v \in Versions : v > TheCore.version /\ metadata[TheCore.name][v] = c})
PlanReturned == Returned /\ op = "Plan" /\ ret.err = NilErr /\ OneCore

\* C3: a plan that Plan returns for a contract other than the core provider's
\* current one names a next version, of that contract, for every provider of
\* the inventory; no plan is returned for such a contract when some provider
\* has no newer release for it.
C3_NoPartialContractChange ==
    PlanReturned =>
        /\ \A k \in DOMAIN ret.plans :
              ret.plans[k].Contract # InstalledContract(TheCore) =>
                  /\ Len(ret.plans[k].Providers) = Len(start.inventory)
                  /\ \A i \in DOMAIN start.inventory :
                        /\ ret.plans[k].Providers[i].Provider = start.inventory[i]
                        /\ ret.plans[k].Providers[i].NextVersion \in Versions
                        /\ metadata[start.inventory[i].name][ret.plans[k].Providers[i].NextVersion]
                               = ret.plans[k].Contract
        /\ \A c \in Contracts \ {InstalledContract(TheCore)} :
              (\E i \in DOMAIN start.inventory : ~HasReleaseFor(start.inventory[i], c)) =>
                  \A k \in DOMAIN ret.plans : ret.plans[k].Contract # c

\* C3 witness: Plan returned plans, and dropped the plan for a newer contract of
\* the core provider for which another provider has no release.
C3_Witness ==
    /\ PlanReturned
    /\ Len(ret.plans) >= 1
    /\ \E c \in Contracts \ {InstalledContract(TheCore)} :
          /\ HasReleaseFor(TheCore, c)
          /\ \E i \in DOMAIN start.inventory : ~HasReleaseFor(start.inventory[i], c)
          /\ \A k \in DOMAIN ret.plans : ret.plans[k].Contract # c

\* C4 (as claimed): for an inventory with exactly one core provider whose
\* metadata resolves, Plan returns a non-empty list whose first plan is for the
\* core provider's current contract.
C4_AsClaimed ==
    (Returned /\ op = "Plan" /\ OneCore /\ Resolves(TheCore)) =>
        /\ ret.err = NilErr
        /\ Len(ret.plans) >= 1
        /\ ret.plans[1].Contract = InstalledContract(TheCore)

\* C4 (amended): for an inventory with exactly one core provider in which the
\* metadata of every provider resolves, Plan returns a non-empty list whose
\* first plan is for the core provider's current contract, kept even when
\* partial, followed by the plans for newer contracts in the order the core
\* provider introduced them.
C4_FirstPlanCurrentContract ==
    (Returned /\ op = "Plan" /\ OneCore
        /\ \A i \in DOMAIN start.inventory : Resolves(start.inventory[i])) =>
        /\ ret.err = NilErr
        /\ Len(ret.plans) >= 1
        /\ ret.plans[1].Contract = InstalledContract(TheCore)
        /\ \A k \in DOMAIN ret.plans : k > 1 =>
              /\ ret.plans[k].Contract # InstalledContract(TheCore)
              /\ HasReleaseFor(TheCore, ret.plans[k].Contract)
              /\ k > 2 => FirstCoreRelease(ret.plans[k - 1].Contract)
                              < FirstCoreRelease(ret.plans[k].Contract)

\* C4 witness: Plan returned a partial plan for the current contract first, and
\* two plans for newer contracts after it.
C4_Witness ==
    /\ PlanReturned
    /\ Len(ret.plans) >= 3
    /\ ret.plans[1].Contract = InstalledContract(TheCore)
    /\ isPartialUpgrade(ret.plans[1])

\* The upgrade items of an ApplyCustomPlan call.
Items == request.items
CustomCall == op = "ApplyCustomPlan" /\ pc # "idle"
\* The provider is among the requested items.
Requested(p) == \E i \in DOMAIN Items : InstanceName(Items[i].Provider) = InstanceName(p)
\* The contract version v of the provider resolves to: NoSeries when the
\* version does not parse, the provider's metadata does not resolve or no
\* release series holds v.
ContractAt(p, v) == IF Resolves(p) /\ v \in Versions THEN metadata[p.name][v] ELSE NoSeries
\* The version the core provider is to end at: the one requested for it in the
\* first item that names it, its installed version when no item does.
TargetVersion ==
    IF Requested(TheCore)
    THEN Items[CHOOSE i \in DOMAIN Items :
                  /\ InstanceName(Items[i].Provider) = InstanceName(TheCore)
                  /\ \A j \in 1..(i - 1) : InstanceName(Items[j].Provider) # InstanceName(TheCore)
              ].NextVersion
    ELSE TheCore.version
TargetContract == ContractAt(TheCore, TargetVersion)
\* The contract the requested version of item i resolves to, NoSeries when the
\* item names no provider of the inventory or does not resolve.
ItemContract(i) ==
    LET live == {k \in DOMAIN start.inventory :
                    InstanceName(start.inventory[k]) = InstanceName(Items[i].Provider)}
    IN  IF live = {} THEN NoSeries
        ELSE ContractAt(start.inventory[CHOOSE k \in live : TRUE], Items[i].NextVersion)
\* Provider k of the inventory is omitted from the request and its installed
\* version resolves to a contract other than the resolved target contract.
Lagging(k) ==
    /\ ~Requested(start.inventory[k])
    /\ ContractAt(start.inventory[k], start.inventory[k].version) \notin {NoSeries, TargetContract}
LaggingProviders == {k \in DOMAIN start.inventory : Lagging(k)}
\* The call changed nothing.
NothingMutated ==
    /\ Issued({"drain", "delete", "install", "removeWebhookNamespace"}) = {}
    /\ inventory = start.inventory
    /\ cluster = start.cluster
    /\ webhookNamespace = start.webhookNamespace
\* The spec's scenario: core and control plane provider at the oldest release,
\* only the core provider requested, at its v1alpha5 release.
Scenario ==
    /\ metadata = CatalogScenario
    /\ unreachable = {}
    /\ Len(start.inventory) = 2
    /\ \E i, j \in DOMAIN start.inventory :
          /\ InstanceName(start.inventory[i]) = InstanceName(CoreA) /\ start.inventory[i].version = 1
          /\ InstanceName(start.inventory[j]) = InstanceName(ControlPlaneA) /\ start.inventory[j].version = 1
    /\ Len(Items) = 1
    /\ InstanceName(Items[1].Provider) = InstanceName(CoreA)
    /\ Items[1].NextVersion = MaxVersion

\* C5 (as claimed): a request that omits a provider whose installed version
\* resolves to a contract other than the resolved target contract fails with
\* LaggingProvider naming such a provider; in the scenario it fails with
\* LaggingProvider naming the control plane provider.
C5_AsClaimed ==
    /\ (Returned /\ CustomCall /\ OneCore /\ TargetContract # NoSeries /\ LaggingProviders # {}) =>
          /\ ret.err.kind = "LaggingProvider"
          /\ \E k \in LaggingProviders : ret.err.provider = InstanceName(start.inventory[k])
    /\ (Returned /\ CustomCall /\ Scenario) =>
          ret.err = Err("LaggingProvider", InstanceName(ControlPlaneA))

\* C5 (amended): such a request is always rejected, with no plan and no
\* mutation; the error is LaggingProvider, naming the first such provider of the
\* inventory, when the target contract is the supported one, every requested
\* item names a provider of the inventory at a version of the target contract
\* and every omitted provider before it resolves; in the scenario the target
\* contract v1alpha5 is not the supported one and the error is UnsupportedContract.
C5_LaggingRejected ==
    /\ (CustomCall /\ OneCore /\ TargetContract # NoSeries /\ LaggingProviders # {}) =>
          /\ Returned /\ ret.err # NilErr /\ plan = NoPlan /\ NothingMutated
          /\ (/\ TargetContract = SupportedContract
              /\ \A i \in DOMAIN Items : ItemContract(i) = TargetContract
              /\ \A k \in 1..(Min(LaggingProviders) - 1) :
                    Requested(start.inventory[k]) \/ Resolves(start.inventory[k])) =>
                 ret.err = Err("LaggingProvider",
                               InstanceName(start.inventory[Min(LaggingProviders)]))
    /\ (CustomCall /\ Scenario) => Returned /\ ret.err.kind = "UnsupportedContract"

\* C5 witness: a request for the supported contract, with an item, was rejected
\* for a lagging provider.
C5_Witness ==
    /\ Returned /\ CustomCall /\ OneCore
    /\ Len(Items) >= 1
    /\ TargetContract = SupportedContract
    /\ LaggingProviders # {}
    /\ ret.err.kind = "LaggingProvider"

\* C6 (as claimed): a request in which two items resolve to different
\* contracts is rejected with ContractMismatch.
C6_AsClaimed ==
    (Returned /\ CustomCall
        /\ \E i, j \in DOMAIN Items :
              /\ ItemContract(i) # NoSeries /\ ItemContract(j) # NoSeries
              /\ ItemContract(i) # ItemContract(j)) =>
        ret.err.kind = "ContractMismatch"

\* C6 (amended): for such a request no plan is returned and nothing is mutated;
\* the error is ContractMismatch, naming the first item whose contract is not
\* the target contract, when there is exactly one core provider, the target
\* contract is the supported one and every item resolves.
C6_MismatchRejected ==
    (CustomCall
        /\ \E i, j \in DOMAIN Items :
              /\ ItemContract(i) # NoSeries /\ ItemContract(j) # NoSeries
              /\ ItemContract(i) # ItemContract(j)) =>
        /\ Returned /\ ret.err # NilErr /\ plan = NoPlan /\ NothingMutated
        /\ (/\ OneCore
            /\ TargetContract = SupportedContract
            /\ \A i \in DOMAIN Items : ItemContract(i) # NoSeries) =>
               ret.err = Err("ContractMismatch",
                   InstanceName(Items[Min({i \in DOMAIN Items :
                                              ItemContract(i) # TargetContract})].Provider))

\* C6 witness: a request with two items that resolve to different contracts was
\* rejected with ContractMismatch.
C6_Witness ==
    /\ Returned /\ CustomCall
    /\ ret.err.kind = "ContractMismatch"
    /\ \E i, j \in DOMAIN Items :
          /\ ItemContract(i) # NoSeries /\ ItemContract(j) # NoSeries
          /\ ItemContract(i) # ItemContract(j)

\* Some provider (type and name) has more than one instance in the inventory.
MultipleInstances(providerList) ==
    \E i, j \in DOMAIN providerList :
        /\ i # j
        /\ providerList[i].type = providerList[j].type
        /\ providerList[i].name = providerList[j].name

AllAtInstalledVersion ==
    \A i \in DOMAIN plan.Providers : \E k \in DOMAIN start.inventory :
        /\ InstanceName(start.inventory[k]) = InstanceName(plan.Providers[i].Provider)
        /\ start.inventory[k].version = plan.Providers[i].NextVersion

\* C8 (as claimed): doUpgrade on a plan in which every item's next version is
\* the version already installed issues no drain, no delete and no install.
C8_AsClaimed ==
    (Executing /\ AllAtInstalledVersion) => Issued({"drain", "delete", "install"}) = {}

\* C8 (amended): doUpgrade on a plan in which every item's next version is
\* empty issues no drain, fetch, delete or install and leaves inventory and
\* components as they were.
C8_EmptyPlanNoOp ==
    (Executing /\ ToUpgrade = {}) =>
        /\ Issued({"drain", "fetch", "delete", "install"}) = {}
        /\ inventory = start.inventory
        /\ cluster = start.cluster

\* C8 witness: ApplyPlan, run again on an inventory that is on the supported
\* contract, planned no next version for any of its providers and returned.
C8_Witness ==
    /\ Returned /\ Executing /\ op = "ApplyPlan"
    /\ ret.err = NilErr
    /\ Len(plan.Providers) >= 2
    /\ ToUpgrade = {}
    /\ \A i \in DOMAIN inventory : InstalledContract(inventory[i]) = SupportedContract

\* C10: createCustomPlan takes the target contract from the version requested
\* for the core provider, or from its installed version when it is not
\* requested; it fails with UnsupportedContract when that contract resolves and
\* is not the supported one, not when it is the supported one; every plan it
\* returns is for the supported contract.
C10_TargetContract ==
    CustomCall =>
        /\ plan # NoPlan => OneCore /\ plan.Contract = SupportedContract
        /\ OneCore =>
              /\ (TargetContract \notin {NoSeries, SupportedContract}) =>
                    Returned /\ ret.err.kind = "UnsupportedContract" /\ plan = NoPlan
              /\ TargetContract = SupportedContract => ret.err.kind # "UnsupportedContract"
              /\ plan # NoPlan => TargetContract = SupportedContract

\* C10 witness: a request that names the core provider at a version of another
\* contract than the installed one was rejected with UnsupportedContract.
C10_Witness ==
    /\ Returned /\ CustomCall /\ OneCore
    /\ Requested(TheCore)
    /\ InstalledContract(TheCore) = SupportedContract
    /\ ret.err.kind = "UnsupportedContract"

CoreCount == Cardinality({i \in DOMAIN start.inventory : start.inventory[i].type = "CoreProvider"})

\* C11: Plan and ApplyCustomPlan (createCustomPlan), called on an inventory
\* with no core provider or with more than one, have returned NotExactlyOneCore,
\* with no plan and nothing mutated.
C11_NotExactlyOneCore ==
    (op \in {"Plan", "ApplyCustomPlan"} /\ pc # "idle" /\ CoreCount # 1) =>
        /\ Returned
        /\ ret.err.kind = "NotExactlyOneCore"
        /\ ret.plans = <<>>
        /\ plan = NoPlan
        /\ NothingMutated

\* C11 witness: a request with an item was rejected on an inventory with two
\* core providers.
C11_Witness ==
    /\ Returned /\ op = "ApplyCustomPlan"
    /\ CoreCount > 1
    /\ Len(request.items) >= 1
    /\ ret.err.kind = "NotExactlyOneCore"

\* The requested items that name no provider of the inventory.
UnknownItems ==
    {i \in DOMAIN Items : \A k \in DOMAIN start.inventory :
        InstanceName(start.inventory[k]) # InstanceName(Items[i].Provider)}

\* C12 (as claimed): a request with an item that names no provider of the
\* inventory, made on an inventory with one core provider, fails with
\* UnknownProvider.
C12_AsClaimed ==
    (Returned /\ CustomCall /\ OneCore /\ UnknownItems # {}) => ret.err.kind = "UnknownProvider"

\* C12 (amended): such a request is always rejected, with no plan, no rollout
\* step and nothing mutated; the error is UnknownProvider, naming the first
\* such item, when there is exactly one core provider, the target contract is
\* the supported one and every item before it names a provider of the
\* inventory at a version of the target contract.
C12_UnknownRejected ==
    (CustomCall /\ UnknownItems # {}) =>
        /\ Returned /\ ret.err # NilErr /\ plan = NoPlan /\ log = <<>> /\ NothingMutated
        /\ (/\ OneCore
            /\ TargetContract = SupportedContract
            /\ \A i \in 1..(Min(UnknownItems) - 1) : ItemContract(i) = TargetContract) =>
               ret.err = Err("UnknownProvider", InstanceName(Items[Min(UnknownItems)].Provider))

\* C12 witness: a request for the supported contract whose second item names no
\* provider of the inventory was rejected with UnknownProvider.
C12_Witness ==
    /\ Returned /\ CustomCall /\ OneCore
    /\ TargetContract = SupportedContract
    /\ UnknownItems = {2}
    /\ ret.err.kind = "UnknownProvider"

\* The errors that report a configuration the call cannot work on.
ConfigurationErrors ==
    {"NotExactlyOneCore", "UnsupportedContract", "UnknownProvider", "ContractMismatch",
     "LaggingProvider", "NoMatchingReleaseSeries", "InvalidVersion",
     "MultipleInstancesNotSupported"}

\* C13: a call that returned a configuration error has issued no step of
\* doUpgrade and left the inventory, the provider components, the deployments'
\* scale and the webhook namespace as they were when it started.
C13_ConfigurationErrorNoMutation ==
    (Returned /\ ret.err.kind \in ConfigurationErrors) =>
        /\ log = <<>>
        /\ NothingMutated

\* C13 witness: ApplyPlan, called after a rollout that upgraded the core
\* provider, returned a configuration error.
C13_Witness ==
    /\ Returned /\ op = "ApplyPlan"
    /\ calls = MaxCalls
    /\ \E i \in DOMAIN inventory : inventory[i].version > 1
    /\ ret.err.kind \in ConfigurationErrors

\* The failed steps of a kind the call has issued.
FailedAt(what) == {k \in DOMAIN log : log[k].what = what /\ ~log[k].ok}

\* C14: when the scale-down of an item has failed, doUpgrade has returned that
\* error at once: the failed scale-down is the last step issued, only the items
\* before it were scaled down, and nothing was fetched, deleted or installed and
\* the webhook namespace was not removed.
C14_DrainFailFast ==
    Executing => \A k \in FailedAt("drain") :
        /\ Returned
        /\ k = Len(log)
        /\ ret.err = Err("DrainError", log[k].who)
        /\ log[k].who = InstanceName(plan.Providers[idx].Provider)
        /\ \A j \in 1..(k - 1) : log[j].what = "drain" /\ log[j].ok
        /\ k = Cardinality({i \in ToUpgrade : i <= idx})
        /\ Issued({"fetch", "delete", "install", "removeWebhookNamespace"}) = {}
        /\ inventory = start.inventory
        /\ webhookNamespace = start.webhookNamespace
        /\ \A id \in DOMAIN cluster : cluster[id].components = start.cluster[id].components

\* C14 witness: the scale-down of the second of three items failed.
C14_Witness ==
    /\ Executing /\ Returned
    /\ FailedAt("drain") = {2}
    /\ \E i \in ToUpgrade : i > idx

\* The instance item i of the plan names, and its record in an inventory.
ItemId(i) == InstanceName(plan.Providers[i].Provider)
RecordOf(providerList, id) ==
    providerList[CHOOSE k \in DOMAIN providerList : InstanceName(providerList[k]) = id]
\* The state an aborted replace loop leaves behind, the loop standing at item
\* idx: the items before it upgraded, item idx deleted and its record as it was,
\* the items after it scaled down and otherwise as they were, and the webhook
\* namespace not removed.
AbortedInPlace ==
    /\ \A i \in ToUpgrade :
          /\ i < idx =>
                /\ cluster[ItemId(i)].components = plan.Providers[i].NextVersion
                /\ RecordOf(inventory, ItemId(i)).version = plan.Providers[i].NextVersion
          /\ i = idx =>
                /\ cluster[ItemId(i)].components = NoVersion
                /\ RecordOf(inventory, ItemId(i)) = RecordOf(start.inventory, ItemId(i))
          /\ i > idx =>
                /\ cluster[ItemId(i)].scaled
                /\ cluster[ItemId(i)].components = start.cluster[ItemId(i)].components
                /\ RecordOf(inventory, ItemId(i)) = RecordOf(start.inventory, ItemId(i))
    /\ Issued({"removeWebhookNamespace"}) = {}
    /\ webhookNamespace = start.webhookNamespace
\* No two items of the plan name the same provider instance.
DistinctItems == \A i, j \in DOMAIN plan.Providers : i # j => ItemId(i) # ItemId(j)

\* C15 (as claimed): when the install of item idx has failed, doUpgrade has
\* returned that error with nothing rolled back: the items before it upgraded,
\* the item deleted and its record untouched, the items after it scaled down
\* and neither deleted nor installed, the webhook namespace in place.
C15_AsClaimed ==
    Executing => \A k \in FailedAt("install") :
        /\ Returned
        /\ k = Len(log)
        /\ ret.err = Err("InstallError", ItemId(idx))
        /\ AbortedInPlace

\* C15 (amended): the same, for a plan whose items name distinct provider
\* instances; in every plan the call returns the error at once and the webhook
\* namespace stays in place.
C15_InstallAbortsInPlace ==
    Executing => \A k \in FailedAt("install") :
        /\ Returned
        /\ k = Len(log)
        /\ ret.err = Err("InstallError", ItemId(idx))
        /\ Issued({"removeWebhookNamespace"}) = {}
        /\ webhookNamespace = start.webhookNamespace
        /\ cluster[ItemId(idx)].components = NoVersion
        /\ DistinctItems => AbortedInPlace

\* C15 witness: the install of the second of three distinct items failed.
C15_Witness ==
    /\ Executing /\ Returned
    /\ DistinctItems
    /\ FailedAt("install") # {}
    /\ \E i, j \in ToUpgrade : i < idx /\ idx < j

\* The instances recorded in an inventory, in order.
Instances(providerList) == [i \in DOMAIN providerList |-> InstanceName(providerList[i])]

\* C16: in every state of a rollout every provider of the inventory the call
\* started with still has its inventory record, its CRDs and its namespace; a
\* delete removes the provider's components only.
C16_DeletePreserves ==
    Executing =>
        /\ Instances(inventory) = Instances(start.inventory)
        /\ \A id \in DOMAIN cluster : cluster[id].crds /\ cluster[id].namespace
        /\ \A k \in Issued({"delete"}) : log[k].ok =>
              \E i \in DOMAIN inventory : InstanceName(inventory[i]) = log[k].who

\* C16 witness: doUpgrade has deleted the components of an item and not yet
\* installed the new ones.
C16_Witness ==
    /\ Executing
    /\ pc = "install"
    /\ cluster[ItemId(idx)].components = NoVersion
    /\ log[Len(log)] = Event("delete", ItemId(idx), TRUE)

\* The removals of the webhook namespace the call has issued.
Removals == Issued({"removeWebhookNamespace"})

\* C17: a call issues the removal of the webhook namespace at most once, as
\* its last step, after every item with a next version was deleted and then
\* installed successfully and no step before it failed; a call in which a
\* scale-down, a fetch, a delete or an install failed has not issued it.
C17_CleanupOnceAtEnd ==
    Executing =>
        /\ Cardinality(Removals) <= 1
        /\ \A k \in Removals :
              /\ Returned
              /\ k = Len(log)
              /\ \A j \in 1..(k - 1) : log[j].ok
              /\ Cardinality(Issued({"install"})) = Cardinality(ToUpgrade)
              /\ \A i \in ToUpgrade : \E d, n \in 1..(k - 1) :
                    /\ d < n
                    /\ log[d] = Event("delete", ItemId(i), TRUE)
                    /\ log[n] = Event("install", ItemId(i), TRUE)
        /\ (\E j \in DOMAIN log : ~log[j].ok /\ log[j].what # "removeWebhookNamespace") =>
              /\ Removals = {}
              /\ webhookNamespace = start.webhookNamespace

\* C17 witness: a rollout of at least two items removed the webhook namespace.
C17_Witness ==
    /\ Executing /\ Returned
    /\ ret.err = NilErr
    /\ Cardinality(ToUpgrade) >= 2
    /\ Removals # {}
    /\ ~webhookNamespace

\* The type precedence of the provider instance a step was issued for.
TypeOrder(who) == Order(who[2])
Replaces == Issued({"fetch", "delete", "install"})

\* C18: the scale-downs of a rollout are issued in non-decreasing type
\* precedence, and so are the steps of the replace loop; the replace loop works
\* on one item at a time, the delete of an item right after its fetch and its
\* install right after its delete.
C18_TypePrecedence ==
    Executing =>
        /\ \A j, k \in Issued({"drain"}) :
              j < k => TypeOrder(log[j].who) <= TypeOrder(log[k].who)
        /\ \A j, k \in Replaces :
              j < k => TypeOrder(log[j].who) <= TypeOrder(log[k].who)
        /\ \A j \in Issued({"drain"}), k \in Replaces : j < k
        /\ \A k \in Issued({"delete"}) : log[k - 1] = Event("fetch", log[k].who, TRUE)
        /\ \A k \in Issued({"install"}) : log[k - 1] = Event("delete", log[k].who, TRUE)

\* C18 witness: a request that names an infrastructure or control plane
\* provider before the core provider was rolled out completely.
C18_Witness ==
    /\ Executing /\ Returned /\ op = "ApplyCustomPlan"
    /\ ret.err = NilErr
    /\ Len(Items) = 2
    /\ Order(Items[1].Provider.type) > Order(Items[2].Provider.type)
    /\ Cardinality(Issued({"install"})) = 2

\* The highest release of the provider, newer than the installed one, whose
\* contract is c; the empty version when there is none.
LatestFor(p, c) ==
    LET S == {v \in Versions : v > p.version /\ metadata[p.name][v] = c}
    IN  IF S = {} THEN NoVersion ELSE Max(S)
\* The plans getUpgradePlan built in the call: those Plan returned, the one
\* ApplyPlan handed to doUpgrade.
BuiltPlans ==
    IF op = "Plan" THEN Range(ret.plans)
    ELSE IF op = "ApplyPlan" /\ plan # NoPlan THEN {plan}
    ELSE {}
\* The fleet of the spec's scenario: core and control plane provider at the
\* oldest release; the core provider offers a newer v1alpha4 release and a
\* v1alpha5 release, the control plane provider the v1alpha4 release only.
ScenarioFleet ==
    /\ metadata = CatalogScenario
    /\ unreachable = {}
    /\ Len(start.inventory) = 2
    /\ InstanceName(start.inventory[1]) = InstanceName(CoreA)
    /\ InstanceName(start.inventory[2]) = InstanceName(ControlPlaneA)
    /\ \A i \in DOMAIN start.inventory : start.inventory[i].version = 1

\* The release standing for v0.4.5 in the scenario: the last v1alpha4 release
\* of CatalogScenario, the one before the v1alpha5 release.
ScenarioLatest == MaxVersion - 1

\* C19: a plan built for contract C has one item per provider of the
\* inventory, its next version the highest release newer than the installed
\* one whose contract is C, or empty when there is none; a provider without
\* such a release does not fail ApplyPlan; in the scenario fleet the first plan
\* of Plan is the one for v1alpha4 and moves both providers to its last release.
C19_LatestNextVersion ==
    /\ \A pl \in BuiltPlans :
          /\ Len(pl.Providers) = Len(start.inventory)
          /\ \A k \in DOMAIN start.inventory : \E i \in DOMAIN pl.Providers :
                pl.Providers[i].Provider = start.inventory[k]
          /\ \A i \in DOMAIN pl.Providers :
                pl.Providers[i].NextVersion = LatestFor(pl.Providers[i].Provider, pl.Contract)
    /\ (/\ Returned /\ op = "ApplyPlan"
        /\ request.contract = SupportedContract
        /\ \A k \in DOMAIN start.inventory : Resolves(start.inventory[k])) =>
           plan # NoPlan /\ ret.err.kind \notin ConfigurationErrors \ {"MultipleInstancesNotSupported"}
    /\ (Returned /\ op = "Plan" /\ ScenarioFleet) =>
          /\ ret.err = NilErr
          /\ Len(ret.plans) >= 1
          /\ ret.plans[1].Contract = "v1alpha4"
          /\ \A i \in 1..2 : ret.plans[1].Providers[i] =
                [Provider |-> start.inventory[i], NextVersion |-> ScenarioLatest]

\* C19 witness: Plan returned, for an inventory of two providers, a plan in
\* which a provider skips a newer release of the contract for the highest one
\* and another provider has no next version.
C19_Witness ==
    /\ Returned /\ op = "Plan"
    /\ \E pl \in BuiltPlans :
          /\ \E i \in DOMAIN pl.Providers :
                /\ pl.Providers[i].NextVersion # NoVersion
                /\ \E v \in Versions :
                      /\ v > pl.Providers[i].Provider.version
                      /\ v < pl.Providers[i].NextVersion
                      /\ metadata[pl.Providers[i].Provider.name][v] = pl.Contract
          /\ \E i \in DOMAIN pl.Providers : pl.Providers[i].NextVersion = NoVersion

\* C20: scaleDownProvider has returned nil only when it listed every
\* deployment the provider's labels match and, for each of them, a poll read
\* made after the desired count was set to or found at zero saw a status count
\* of zero; the poll of a deployment has started only after its desired count
\* was set to or found at zero.
C20_DrainedMeansObserved ==
    /\ (sd.pc = "done" /\ sd.err = "nil") =>
          /\ Range(sd.list) = {u \in DOMAIN deployments : deployments[u].owner}
          /\ \A u \in Range(sd.list) : seen[u].zero /\ seen[u].observed
    /\ \A u \in DOMAIN seen : seen[u].polled => seen[u].zero
    /\ \A u \in DOMAIN seen : seen[u].observed => seen[u].polled

\* C20 witness: scaleDownProvider returned nil for two deployments, one of
\* which another client has scaled up again since.
C20_Witness ==
    /\ sd.pc = "done" /\ sd.err = "nil"
    /\ Len(sd.list) = 2
    /\ \E u \in Range(sd.list) : deployments[u].replicas # 0
    /\ \A u \in Range(sd.list) : seen[u].observed

\* C21 (as claimed): scaleDownDeployment makes at most the attempts of the
\* write backoff and at most the polls of the poll backoff, and when the last
\* poll still read a status count other than zero, the error scaleDownProvider
\* returns names the deployment and carries the count that poll read.
C21_DrainTerminates ==
    /\ \A u \in DOMAIN seen :
          seen[u].attempts <= MaxWriteSteps /\ seen[u].polls <= MaxPollSteps
    /\ (sd.pc = "done" /\ sd.err = "PollTimeout") =>
          /\ sd.cause.unit = Unit
          /\ sd.cause.replicas = seen[Unit].last

\* C22: no Update of scaleDownDeployment replaced a desired count that the Get
\* of the same attempt read as zero, and every Update it issued left the
\* desired count of the deployment at zero.
C22_NoUpdateAtZero ==
    /\ [](\A u \in DOMAIN seen : 0 \notin seen[u].updated)
    /\ [][\A u \in DOMAIN seen :
             seen'[u].updated # seen[u].updated => deployments'[u].replicas = 0]_vars

\* C22 witness: scaleDownProvider returned nil after it found one deployment
\* at a desired count of zero and left it alone, and issued an Update for
\* another whose desired count was unset.
C22_Witness ==
    /\ sd.pc = "done" /\ sd.err = "nil"
    /\ \E u \in Range(sd.list) : seen[u].skipped /\ seen[u].updated = {}
    /\ \E u \in Range(sd.list) : NilReplicas \in seen[u].updated

\* The labels of the provider of the last call of downloadManifests.
CalledLabels == prepareConfigMapLabels(dl.obj, [version |-> dl.version, selector |-> dl.selector])

\* downloadManifests of a provider with a FetchConfig selector returns nil
\* and has neither listed ConfigMaps, nor fetched a file, nor created a
\* ConfigMap (the part of C23 that is about downloadManifests).
CustomConfigMapSkipsDownload ==
    (dl.called /\ dl.selector) =>
        dl.err = "nil" /\ ~dl.listed /\ dl.fetched = 0 /\ ~dl.created

\* C28: a call of downloadManifests for a provider (object and version) for
\* which an earlier call created the ConfigMap fetches nothing and creates
\* nothing and, when its List returns, finds exactly one matching ConfigMap
\* and returns nil; a call whose List finds more than one matching ConfigMap
\* returns an error and has fetched and created nothing; no call leaves a
\* second ConfigMap of the same labels where it created one.
C28_Idempotent ==
    /\ dl.later =>
          /\ ~dl.created /\ dl.fetched = 0
          /\ ~dl.listErr => dl.listed /\ dl.found = 1 /\ dl.err = "nil"
    /\ dl.found > 1 => dl.err # "nil" /\ ~dl.created /\ dl.fetched = 0
    /\ \A m \in made :
          Cardinality({cm \in configMaps :
              Matches(cm.labels, prepareConfigMapLabels(m[1], [version |-> m[2], selector |-> FALSE]))}) = 1

\* C28 witness: the call for the core provider of one namespace created the
\* ConfigMap, the same provider of the other namespace was reconciled too, and
\* a later call for the first found the one ConfigMap and returned nil.
C28_Witness ==
    /\ dl.later /\ dl.err = "nil" /\ dl.found = 1
    /\ dl.obj = CoreA
    /\ providerSpecs[CoreB].version = dl.version /\ ~providerSpecs[CoreB].selector
    /\ Cardinality(made) = 2

\* C29 (as claimed): after downloadManifests returned nil for a provider
\* without a FetchConfig selector, the provider's own namespace holds a
\* ConfigMap with the provider's labels and with its metadata and components.
C29_ConfigMapInNamespace ==
    (dl.called /\ dl.err = "nil" /\ ~dl.selector) =>
        \E cm \in configMaps :
            /\ cm.namespace = dl.obj.namespace
            /\ Matches(cm.labels, CalledLabels)
            /\ {"metadata", "components"} \subseteq cm.data

\* C24 (as claimed): ApplyPlan has issued no step of doUpgrade when the plan
\* getUpgradePlan built for its contract is partial and the contract is not
\* the current contract of the core provider, the plans Plan drops.
C24_DropRuleGuardsExecution ==
    (/\ op = "ApplyPlan" /\ plan # NoPlan
     /\ OneCore
     /\ isPartialUpgrade(plan)
     /\ InstalledContract(FilterCore(start.inventory)[1]) # plan.Contract) =>
        log = <<>>

\* C25 (as claimed): ApplyPlan and ApplyCustomPlan have issued no scale-down,
\* no delete and no install (which updates the inventory) for an inventory
\* whose core providers are not exactly one, and have left the inventory as it
\* was.
C25_NoRolloutWithoutOneCore ==
    (IsApply /\ CoreCount # 1) =>
        /\ Issued({"drain", "delete", "install"}) = {}
        /\ inventory = start.inventory

\* The state a failed fetch leaves behind, the replace loop standing at item
\* idx: the items before it replaced, item idx and the items after it scaled
\* down and otherwise as they were, and only items before idx deleted or
\* installed.
FetchFailedInPlace ==
    /\ \A i \in ToUpgrade :
          /\ i < idx =>
                /\ cluster[ItemId(i)].components = plan.Providers[i].NextVersion
                /\ RecordOf(inventory, ItemId(i)).version = plan.Providers[i].NextVersion
          /\ i >= idx =>
                /\ cluster[ItemId(i)].scaled
                /\ cluster[ItemId(i)].components = start.cluster[ItemId(i)].components
                /\ RecordOf(inventory, ItemId(i)) = RecordOf(start.inventory, ItemId(i))
    /\ \A k \in Issued({"delete", "install"}) :
          \E i \in ToUpgrade : i < idx /\ log[k].who = ItemId(i)

\* C26 (as claimed): every delete follows the successful fetch of the same
\* item, and when the fetch of item idx has failed, doUpgrade has returned
\* ComponentFetchError with item idx and the later items scaled down and still
\* installed at their old version and only the items before idx replaced.
C26_AsClaimed ==
    Executing =>
        /\ \A k \in Issued({"delete"}) : k > 1 /\ log[k - 1] = Event("fetch", log[k].who, TRUE)
        /\ \A k \in FailedAt("fetch") :
              /\ Returned
              /\ k = Len(log)
              /\ ret.err = Err("ComponentFetchError", ItemId(idx))
              /\ FetchFailedInPlace

\* C26 (amended): the same, for a plan whose items name distinct provider
\* instances; in every plan the failed fetch is the last step and every item
\* deleted before it was installed again.
C26_FetchBeforeDelete ==
    Executing =>
        /\ \A k \in Issued({"delete"}) : k > 1 /\ log[k - 1] = Event("fetch", log[k].who, TRUE)
        /\ \A k \in FailedAt("fetch") :
              /\ Returned
              /\ k = Len(log)
              /\ ret.err = Err("ComponentFetchError", ItemId(idx))
              /\ Cardinality(Issued({"delete"})) = Cardinality(Issued({"install"}))
              /\ DistinctItems => FetchFailedInPlace

\* C26 witness: the fetch for the second of two distinct items failed after
\* the first was replaced.
C26_Witness ==
    /\ Executing /\ Returned
    /\ DistinctItems
    /\ FailedAt("fetch") # {}
    /\ \E i \in ToUpgrade : i < idx
    /\ Issued({"install"}) # {}

====
